---- MODULE Spec2Model ----
(***************************************************************************)
(* Model of src/prepare/mod.rs of wasmi: compile_module, and the two       *)
(* policy gates deny_floating_point and validate_memory_size.              *)
(*                                                                         *)
(* A Module is a record of its four sections that the code reads.  An      *)
(* Option<T> is a set with at most one element: {} is None, {x} is Some(x).*)
(* A Result is [tag |-> "Ok", ...] or [tag |-> "Err", error |-> e].        *)
(***************************************************************************)
EXTENDS Integers, Sequences, FiniteSets, TLC

VARIABLES
    module,           \* the parsed Module handed to the three functions
    allow_f32,        \* deny_floating_point's flag
    max_pages,        \* validate_memory_size's cap (a u32)
    overflow_checks,  \* build profile: TRUE when u32 `+` panics on overflow
    code_map,         \* WasmiValidation.code_map of the last validator object
    validated,        \* function indices handed to the function validator by the last compile_module
    compiled,         \* Option<Result<CompiledModule, Error>> of the last compile_module
    fp_result,        \* Option<Result<(), Error>> of the last deny_floating_point
    mem_result,       \* Option<outcome> of the last validate_memory_size
    calls             \* history: the functions called so far, and those called again

vars == <<module, allow_f32, max_pages, overflow_checks, code_map, validated,
          compiled, fp_result, mem_result, calls>>

(***************************************************************************)
(* Option and Result                                                       *)
(***************************************************************************)
None == {}

Some(x) == {x}

IsSome(o) == o # {}

Unwrap(o) == CHOOSE x \in o : TRUE

Ok(v) == [tag |-> "Ok", value |-> v]

Err(e) == [tag |-> "Err", error |-> e]

IsOk(r) == r.tag = "Ok"

IsErr(r) == r.tag = "Err"

(***************************************************************************)
(* u32.  TLC's integers stop at 2^31 - 1, so a u32 is kept as two 16-bit   *)
(* limbs [hi, lo] with value hi * 2^16 + lo.  A "wide" number has the same *)
(* shape with an unbounded hi limb: it holds a mathematical sum.           *)
(***************************************************************************)
Limb == 65536

U32(h, l) == [hi |-> h, lo |-> l]

Zero == U32(0, 0)

U32Max == U32(Limb - 1, Limb - 1)

\* the mathematical sum of two wide numbers
WideAdd(a, b) ==
    LET s == a.lo + b.lo
    IN  [hi |-> a.hi + b.hi + (s \div Limb), lo |-> s % Limb]

\* a > b on wide numbers
WideGt(a, b) == a.hi > b.hi \/ (a.hi = b.hi /\ a.lo > b.lo)

\* whether a wide number fits a u32
FitsU32(w) == w.hi < Limb

\* a wide number reduced modulo 2^32
WrapU32(w) == [hi |-> w.hi % Limb, lo |-> w.lo]

(***************************************************************************)
(* parity_wasm's ValueType and the instructions the gate's tables name.    *)
(* An instruction is modelled by its variant name; its immediates (which   *)
(* every table pattern ignores with `_`) are left out.                     *)
(***************************************************************************)
ValueType == {"I32", "I64", "F32", "F64"}

DENIED_32 ==
    << "F32Load", "F32Store", "F32Const", "F32Eq", "F32Ne", "F32Lt", "F32Gt",
       "F32Le", "F32Ge", "F32Abs", "F32Neg", "F32Ceil", "F32Floor", "F32Trunc",
       "F32Nearest", "F32Sqrt", "F32Add", "F32Sub", "F32Mul", "F32Div",
       "F32Min", "F32Max", "F32Copysign", "F32ConvertSI32", "F32ConvertUI32",
       "F32ConvertSI64", "F32ConvertUI64", "F32DemoteF64", "I32TruncSF32",
       "I32TruncUF32", "I32TruncSF64", "I32TruncUF64", "F32ReinterpretI32",
       "I32ReinterpretF32" >>

DENIED_64 ==
    << "F64Load", "F64Store", "F64Const", "F64Eq", "F64Ne", "F64Lt", "F64Gt",
       "F64Le", "F64Ge", "F64Abs", "F64Neg", "F64Ceil", "F64Floor", "F64Trunc",
       "F64Nearest", "F64Sqrt", "F64Add", "F64Sub", "F64Mul", "F64Div",
       "F64Min", "F64Max", "F64Copysign", "F64ConvertSI32", "F64ConvertUI32",
       "F64ConvertSI64", "F64ConvertUI64", "F64PromoteF32", "F64ReinterpretI64",
       "I64TruncSF32", "I64TruncUF32", "I64TruncSF64", "I64TruncUF64",
       "I64ReinterpretF64" >>

\* match_eq!(pattern): the closure that answers whether *val matches pattern
match_eq(pattern, val) == val = pattern

\* TABLE.iter().any(|is_denied| is_denied(op))
any_denied(table, op) == \E i \in DOMAIN table : match_eq(table[i], op)

(***************************************************************************)
(* deny_floating_point                                                     *)
(***************************************************************************)
\* code.bodies().iter().flat_map(|body| body.code().elements())
RECURSIVE flat_map(_)
flat_map(bodies) ==
    IF bodies = <<>> THEN <<>>
    ELSE Head(bodies).code \o flat_map(Tail(bodies))

\* check_op with the polarity of allow_f32 turned round
check_op_when_denied(op, allow) ==
    IF any_denied(DENIED_64, op)
    THEN Some([msg |-> "f64 Floating point operation denied", op |-> op])
    ELSE IF ~allow /\ any_denied(DENIED_32, op)
    THEN Some([msg |-> "f32 Floating point operation denied", op |-> op])
    ELSE None

\* the checks of one op: Some(error) when it is denied
check_op(op, allow) ==
    IF any_denied(DENIED_64, op)
    THEN Some([msg |-> "f64 Floating point operation denied", op |-> op])
    ELSE IF allow /\ any_denied(DENIED_32, op)
    THEN Some([msg |-> "f32 Floating point operation denied", op |-> op])
    ELSE None

\* the `for op in ...` loop: the error of the first op that is denied
RECURSIVE scan_ops(_, _)
scan_ops(ops, allow) ==
    IF ops = <<>> THEN None
    ELSE IF IsSome(check_op(Head(ops), allow)) THEN check_op(Head(ops), allow)
    ELSE scan_ops(Tail(ops), allow)

\* the closure given to .any() in the signature scan
denied_type(typ, allow) ==
    IF allow THEN typ = "F64" ELSE typ = "F32" \/ typ = "F64"

\* func.results().first(): an iterator over at most the first result
first(results) == IF results = <<>> THEN <<>> ELSE <<Head(results)>>

\* sig_denied without the chained result
sig_denied_params_only(func, allow) ==
    \E i \in DOMAIN func.params : denied_type(func.params[i], allow)

\* func.params().iter().chain(func.results().first()).any(...)
sig_denied(func, allow) ==
    LET chain == func.params \o first(func.results)
    IN  \E i \in DOMAIN chain : denied_type(chain[i], allow)

\* the `for sig in sec.entries()` loop: TRUE when it returns the error
RECURSIVE scan_sigs(_, _, _)
scan_sigs(entries, types, allow) ==
    IF entries = <<>> THEN FALSE
    ELSE LET type_ref == Head(entries)
         IN  IF type_ref + 1 \in DOMAIN types /\ sig_denied(types[type_ref + 1], allow)
             THEN TRUE
             ELSE scan_sigs(Tail(entries), types, allow)

\* deny_floating_point with the signature scan ahead of the instruction scan
deny_floating_point_sigs_first(m, allow) ==
    LET in_code == IF IsSome(m.code_section)
                   THEN scan_ops(flat_map(Unwrap(m.code_section)), allow)
                   ELSE None
    IN  IF IsSome(m.function_section) /\ IsSome(m.type_section)
           /\ scan_sigs(Unwrap(m.function_section), Unwrap(m.type_section), allow)
        THEN Err([msg |-> "Use of floating point types denied"])
        ELSE IF IsSome(in_code) THEN Err(Unwrap(in_code))
        ELSE Ok("unit")

deny_floating_point(m, allow) ==
    LET in_code == IF IsSome(m.code_section)
                   THEN scan_ops(flat_map(Unwrap(m.code_section)), allow)
                   ELSE None
    IN  IF IsSome(in_code) THEN Err(Unwrap(in_code))
        ELSE IF IsSome(m.function_section) /\ IsSome(m.type_section)
                /\ scan_sigs(Unwrap(m.function_section), Unwrap(m.type_section), allow)
        THEN Err([msg |-> "Use of floating point types denied"])
        ELSE Ok("unit")

(***************************************************************************)
(* validate_memory_size                                                    *)
(***************************************************************************)
\* entries.iter().map(|entry| entry.limits().initial())
RECURSIVE initials(_)
initials(entries) ==
    IF entries = <<>> THEN <<>>
    ELSE <<Head(entries).initial>> \o initials(Tail(entries))

\* Iterator::sum for u32: a fold of `+` from 0.  `+` on u32 panics on
\* overflow when the build has overflow checks and wraps modulo 2^32
\* otherwise.  The accumulator is Some(u32), or None once `+` panicked.
RECURSIVE sum_from(_, _, _)
sum_from(acc, xs, checks) ==
    IF xs = <<>> \/ acc = None THEN acc
    ELSE LET s == WideAdd(Unwrap(acc), Head(xs))
         IN  IF FitsU32(s) THEN sum_from(Some(s), Tail(xs), checks)
             ELSE IF checks THEN None
             ELSE sum_from(Some(WrapU32(s)), Tail(xs), checks)

sum(xs, checks) == sum_from(Some(Zero), xs, checks)

\* the outcome of validate_memory_size: Ok, Err, or the panic of `+`
validate_memory_size(m, cap, checks) ==
    LET sum_pages == IF IsSome(m.memory_section)
                     THEN sum(initials(Unwrap(m.memory_section)), checks)
                     ELSE Some(Zero)
    IN  IF sum_pages = None
        THEN [tag |-> "Panic", error |-> "attempt to add with overflow"]
        ELSE IF WideGt(Unwrap(sum_pages), cap)
        THEN Err([msg |-> "The WASM module is not allowed to have more than {} pages of memory",
                  max_pages |-> cap])
        ELSE Ok("unit")

(***************************************************************************)
(* The function validator (prepare/compile.rs, FuncValidator of            *)
(* WasmiValidation) and validation::validate_module.  Both live outside    *)
(* prepare/mod.rs and are modelled from the specification, sections 4.1    *)
(* and 4.2, over the instructions the inputs below use.                    *)
(***************************************************************************)
F32Unary == {"F32Abs", "F32Neg", "F32Ceil", "F32Floor", "F32Trunc", "F32Nearest", "F32Sqrt"}

F32Binary == {"F32Add", "F32Sub", "F32Mul", "F32Div", "F32Min", "F32Max", "F32Copysign"}

F32Compare == {"F32Eq", "F32Ne", "F32Lt", "F32Gt", "F32Le", "F32Ge"}

F64Unary == {"F64Abs", "F64Neg", "F64Ceil", "F64Floor", "F64Trunc", "F64Nearest", "F64Sqrt"}

F64Binary == {"F64Add", "F64Sub", "F64Mul", "F64Div", "F64Min", "F64Max", "F64Copysign"}

F64Compare == {"F64Eq", "F64Ne", "F64Lt", "F64Gt", "F64Le", "F64Ge"}

Rule(pops, pushes) == [pops |-> pops, pushes |-> pushes]

\* an instruction's type rule: the operand types it pops (the last one from
\* the top of the stack) and the result types it pushes; "Any" is Drop's
\* operand of any type
type_rule(op) ==
    CASE op = "Nop" -> Rule(<<>>, <<>>)
      [] op = "Drop" -> Rule(<<"Any">>, <<>>)
      [] op = "I32Const" -> Rule(<<>>, <<"I32">>)
      [] op = "I64Const" -> Rule(<<>>, <<"I64">>)
      [] op = "I32Add" -> Rule(<<"I32", "I32">>, <<"I32">>)
      [] op = "F32Load" -> Rule(<<"I32">>, <<"F32">>)
      [] op = "F32Store" -> Rule(<<"I32", "F32">>, <<>>)
      [] op = "F32Const" -> Rule(<<>>, <<"F32">>)
      [] op \in F32Compare -> Rule(<<"F32", "F32">>, <<"I32">>)
      [] op \in F32Unary -> Rule(<<"F32">>, <<"F32">>)
      [] op \in F32Binary -> Rule(<<"F32", "F32">>, <<"F32">>)
      [] op \in {"F32ConvertSI32", "F32ConvertUI32", "F32ReinterpretI32"} -> Rule(<<"I32">>, <<"F32">>)
      [] op \in {"F32ConvertSI64", "F32ConvertUI64"} -> Rule(<<"I64">>, <<"F32">>)
      [] op = "F32DemoteF64" -> Rule(<<"F64">>, <<"F32">>)
      [] op \in {"I32TruncSF32", "I32TruncUF32", "I32ReinterpretF32"} -> Rule(<<"F32">>, <<"I32">>)
      [] op \in {"I32TruncSF64", "I32TruncUF64"} -> Rule(<<"F64">>, <<"I32">>)
      [] op = "F64Load" -> Rule(<<"I32">>, <<"F64">>)
      [] op = "F64Store" -> Rule(<<"I32", "F64">>, <<>>)
      [] op = "F64Const" -> Rule(<<>>, <<"F64">>)
      [] op \in F64Compare -> Rule(<<"F64", "F64">>, <<"I32">>)
      [] op \in F64Unary -> Rule(<<"F64">>, <<"F64">>)
      [] op \in F64Binary -> Rule(<<"F64", "F64">>, <<"F64">>)
      [] op \in {"F64ConvertSI32", "F64ConvertUI32"} -> Rule(<<"I32">>, <<"F64">>)
      [] op \in {"F64ConvertSI64", "F64ConvertUI64", "F64ReinterpretI64"} -> Rule(<<"I64">>, <<"F64">>)
      [] op = "F64PromoteF32" -> Rule(<<"F32">>, <<"F64">>)
      [] op \in {"I64TruncSF32", "I64TruncUF32"} -> Rule(<<"F32">>, <<"I64">>)
      [] op \in {"I64TruncSF64", "I64TruncUF64", "I64ReinterpretF64"} -> Rule(<<"F64">>, <<"I64">>)

\* whether the top of the value-type stack holds the operands `pops`
operands_match(stack, pops) ==
    /\ Len(pops) <= Len(stack)
    /\ \A i \in DOMAIN pops :
          pops[i] = "Any" \/ stack[Len(stack) - Len(pops) + i] = pops[i]

\* the single forward pass over a body: Some(position) of the first
\* instruction whose rule fails, counted from 0, or of the function's end
\* (Len(code)) when the stack left is not the declared result; None when
\* the body is well typed
RECURSIVE type_check(_, _, _, _)
type_check(code, pos, stack, results) ==
    IF pos = Len(code)
    THEN IF stack = results THEN None ELSE Some(pos)
    ELSE LET rule == type_rule(code[pos + 1])
         IN  IF ~operands_match(stack, rule.pops) THEN Some(pos)
             ELSE type_check(code, pos + 1,
                             SubSeq(stack, 1, Len(stack) - Len(rule.pops)) \o rule.pushes,
                             results)

\* the Instruction Encoding of a validated body: its instructions lowered
\* one to one, closed by the function's Return
encode(code) == [i \in 1..Len(code) |-> <<"isa", code[i]>>] \o <<<<"isa", "Return">>>>

\* the function validator run on the body with index `index`
validate_function(m, index) ==
    LET body == Unwrap(m.code_section)[index + 1]
        refs == IF IsSome(m.function_section) THEN Unwrap(m.function_section) ELSE <<>>
        types == IF IsSome(m.type_section) THEN Unwrap(m.type_section) ELSE <<>>
    IN  IF index + 1 \notin DOMAIN refs \/ refs[index + 1] + 1 \notin DOMAIN types
        THEN Err([msg |-> "function has no signature", func |-> index])
        ELSE LET at == type_check(body.code, 0, <<>>, types[refs[index + 1] + 1].results)
             IN  IF IsSome(at)
                 THEN Err([msg |-> "type error", func |-> index, at |-> Unwrap(at)])
                 ELSE Ok(encode(body.code))

(***************************************************************************)
(* impl Validator for WasmiValidation, and compile_module                  *)
(***************************************************************************)
\* new that keeps the code map of the validator object before it
new_reusing(m) == [code_map |-> code_map]

new(m) == [code_map |-> <<>>]

\* on_function_validated that puts the output in front
on_function_validated_front(self, index, output) ==
    [self EXCEPT !.code_map = <<output>> \o self.code_map]

on_function_validated(self, index, output) ==
    [self EXCEPT !.code_map = Append(self.code_map, output)]

finish(self) == self.code_map

n_bodies(m) == IF IsSome(m.code_section) THEN Len(Unwrap(m.code_section)) ELSE 0

\* validate_module's loop over the function bodies in ascending index
\* order: the validator object, the indices handed to the function
\* validator so far, and the result once it is known
RECURSIVE drive(_, _, _, _)
drive(m, index, validation, seen) ==
    IF index = n_bodies(m)
    THEN [result |-> Ok(finish(validation)), validation |-> validation, validated |-> seen]
    ELSE LET r == validate_function(m, index)
         IN  IF IsErr(r)
             THEN [result |-> r, validation |-> validation, validated |-> Append(seen, index)]
             ELSE drive(m, index + 1, on_function_validated(validation, index, r.value),
                        Append(seen, index))

validate_module(m) == drive(m, 0, new(m), <<>>)

\* compile_module that hands out what was compiled before the failure
compile_module_partial(m) ==
    LET run == validate_module(m)
    IN  Ok([module |-> m, code_map |-> finish(run.validation)])

compile_module(m) ==
    LET r == validate_module(m).result
    IN  IF IsErr(r) THEN r
        ELSE Ok([module |-> m, code_map |-> r.value])

(***************************************************************************)
(* Inputs.  A Module is [type_section, function_section, code_section,     *)
(* memory_section], each an Option of the section's entries.  A type is    *)
(* [params, results] with at most one result (the binary format's          *)
(* restriction), a function entry is its type_ref, a body is [code] and a  *)
(* memory entry is its limits [initial, maximum].                          *)
(***************************************************************************)
MaxFuncs == 2

MaxOps == 3

MaxParams == 2

MaxMemories == 2

SeqsUpTo(S, n) == UNION {[1..k -> S] : k \in 0..n}

FuncType(params, results) == [params |-> params, results |-> results]

Body(code) == [code |-> code]

Mod(types, refs, bodies, mems) ==
    [type_section |-> types, function_section |-> refs,
     code_section |-> bodies, memory_section |-> mems]

\* every instruction the tables or the type rules name
AllOps ==
    {DENIED_32[i] : i \in DOMAIN DENIED_32} \cup {DENIED_64[i] : i \in DOMAIN DENIED_64}
        \cup {"Nop", "Drop", "I32Const", "I64Const", "I32Add"}

\* the instructions the enumerated bodies are made of: one no table names,
\* one of each table, and the f64 truncation that DENIED_32 lists
SampleOps == {"I32Const", "F32Const", "F64Const", "I32TruncSF64"}

\* all ways to write at most n instructions into exactly f bodies
RECURSIVE BodiesWith(_, _)
BodiesWith(f, n) ==
    IF f = 0 THEN {<<>>}
    ELSE UNION {{<<Body(c)>> \o rest : rest \in BodiesWith(f - 1, n - Len(c))} :
                    c \in SeqsUpTo(SampleOps, n)}

ScanSigs ==
    {FuncType(<<>>, <<>>), FuncType(<<"F32">>, <<>>), FuncType(<<"I32">>, <<"F64">>)}

\* bodies in depth: up to MaxOps instructions in up to MaxFuncs bodies, all
\* functions of one type
ScanModules ==
    UNION {{Mod(Some(<<t>>), Some([i \in 1..f |-> 0]), Some(bs), None) :
                t \in ScanSigs, bs \in BodiesWith(f, MaxOps)} : f \in 0..MaxFuncs}

\* every instruction once, alone in a body
OpModules ==
    {Mod(Some(<<t>>), Some(<<0>>), Some(<<Body(<<op>>)>>), None) :
        t \in {FuncType(<<>>, <<>>), FuncType(<<"F32">>, <<>>)}, op \in AllOps}

\* bodies that pass the instruction scan for one or for both values of allow_f32
PlainCodes == {<<>>, <<"F32Const", "Drop">>}

\* signatures in depth: one function of every type of up to MaxParams parameters
ParamModules ==
    {Mod(Some(<<FuncType(ps, rs)>>), Some(<<0>>), Some(<<Body(c)>>), None) :
        ps \in SeqsUpTo(ValueType, MaxParams), rs \in SeqsUpTo(ValueType, 1),
        c \in PlainCodes}

SampleTypes ==
    << FuncType(<<>>, <<>>), FuncType(<<"I32">>, <<"I64">>), FuncType(<<"F32">>, <<>>),
       FuncType(<<"I32", "F64">>, <<>>), FuncType(<<>>, <<"F32">>),
       FuncType(<<"I64">>, <<"F64">>) >>

\* functions in breadth: up to MaxFuncs functions, each with any type_ref
\* into SampleTypes or the first index past it
FuncModules ==
    UNION {{Mod(Some(SampleTypes), Some(refs), Some([i \in 1..f |-> Body(c)]), None) :
                refs \in [1..f -> 0..Len(SampleTypes)], c \in PlainCodes} :
           f \in 0..MaxFuncs}

\* modules that lack a section
SectionModules ==
    {Mod(ts, rs, cs, None) :
        ts \in {None, Some(<<FuncType(<<"F64">>, <<>>)>>)},
        rs \in {None, Some(<<0>>)},
        cs \in {None, Some(<<Body(<<"I32Const", "Drop">>)>>), Some(<<Body(<<"F64Const", "Drop">>)>>)}}

FloatModules == ScanModules \cup OpModules \cup ParamModules \cup FuncModules \cup SectionModules

PageCounts == {Zero, U32(0, 3), U32(0, 4), U32(Limb \div 2, 0), U32Max}

Limits == [initial : PageCounts, maximum : {None, Some(U32(0, 100))}]

Caps == {Zero, U32(0, 6), U32(0, 7), U32(0, 8), U32(Limb \div 2, 0), U32Max}

MemorySections == {None} \cup {Some(ms) : ms \in SeqsUpTo(Limits, MaxMemories)}

MemModules == {Mod(None, None, None, ms) : ms \in MemorySections}

\* functions for compile_module: a type and a body, well typed or not
SampleFuncs ==
    { [type |-> FuncType(<<>>, <<>>), code |-> <<>>],
      [type |-> FuncType(<<>>, <<>>), code |-> <<"F32Const", "Drop">>],
      [type |-> FuncType(<<"F64">>, <<"I32">>), code |-> <<"I32Const">>],
      [type |-> FuncType(<<>>, <<"I32">>), code |-> <<>>],
      [type |-> FuncType(<<>>, <<>>), code |-> <<"I32Const", "I32Add", "Drop">>] }

SampleMemories ==
    { None,
      Some(<<[initial |-> U32(0, 3), maximum |-> None],
             [initial |-> U32(0, 4), maximum |-> Some(U32(0, 100))]>>),
      Some(<<[initial |-> U32Max, maximum |-> None], [initial |-> U32(0, 4), maximum |-> None]>>) }

CompileModules ==
    UNION {{Mod(Some([i \in 1..f |-> fs[i].type]), Some([i \in 1..f |-> i - 1]),
                Some([i \in 1..f |-> Body(fs[i].code)]), ms) :
                fs \in [1..f -> SampleFuncs], ms \in SampleMemories} :
           f \in 0..MaxFuncs}

(***************************************************************************)
(* The state machine: a caller holding one module and calling the three    *)
(* functions on it in any order, any number of times.                      *)
(***************************************************************************)
NotCalled == [first |-> {}, again |-> {}]

Called(name) ==
    [first |-> calls.first \cup {name},
     again |-> IF name \in calls.first THEN calls.again \cup {name} ELSE calls.again]

InitResults ==
    /\ code_map = <<>>
    /\ validated = <<>>
    /\ compiled = None
    /\ fp_result = None
    /\ mem_result = None
    /\ calls = NotCalled

Init ==
    /\ module \in CompileModules
    /\ allow_f32 \in BOOLEAN
    /\ max_pages \in {U32(0, 6), U32(0, 7)}
    /\ overflow_checks \in BOOLEAN
    /\ InitResults

InitFloat ==
    /\ module \in FloatModules
    /\ allow_f32 \in BOOLEAN
    /\ max_pages = Zero
    /\ overflow_checks = FALSE
    /\ InitResults

InitMem ==
    /\ module \in MemModules
    /\ allow_f32 = FALSE
    /\ max_pages \in Caps
    /\ overflow_checks \in BOOLEAN
    /\ InitResults

CompileModule ==
    /\ compiled' = Some(compile_module(module))
    /\ code_map' = validate_module(module).validation.code_map
    /\ validated' = validate_module(module).validated
    /\ calls' = Called("compile_module")
    /\ UNCHANGED <<module, allow_f32, max_pages, overflow_checks, fp_result, mem_result>>

DenyFloatingPoint ==
    /\ fp_result' = Some(deny_floating_point(module, allow_f32))
    /\ calls' = Called("deny_floating_point")
    /\ UNCHANGED <<module, allow_f32, max_pages, overflow_checks, code_map, validated,
                   compiled, mem_result>>

ValidateMemorySize ==
    /\ mem_result' = Some(validate_memory_size(module, max_pages, overflow_checks))
    /\ calls' = Called("validate_memory_size")
    /\ UNCHANGED <<module, allow_f32, max_pages, overflow_checks, code_map, validated,
                   compiled, fp_result>>

Next == CompileModule \/ DenyFloatingPoint \/ ValidateMemorySize

Spec == Init /\ [][Next]_vars

SpecFloat == InitFloat /\ [][DenyFloatingPoint]_vars

SpecMem == InitMem /\ [][ValidateMemorySize]_vars

(***************************************************************************)
(* Vocabulary of the claims                                                *)
(***************************************************************************)
\* the bodies of the module, none when it has no code section
BodiesOf(m) == IF IsSome(m.code_section) THEN Unwrap(m.code_section) ELSE <<>>

\* the positions <<body index, instruction index>> of the module's code
Positions(m) ==
    UNION {{<<b, i>> : i \in DOMAIN BodiesOf(m)[b].code} : b \in DOMAIN BodiesOf(m)}

OpAt(m, p) == BodiesOf(m)[p[1]].code[p[2]]

OpsOf(m) == {OpAt(m, p) : p \in Positions(m)}

\* scan order: by body index, then by position
Before(p, q) == p[1] < q[1] \/ (p[1] = q[1] /\ p[2] < q[2])

TableSet(table) == {table[i] : i \in DOMAIN table}

\* the value types an instruction consumes or produces
TypesOf(op) ==
    {type_rule(op).pops[i] : i \in DOMAIN type_rule(op).pops}
        \cup {type_rule(op).pushes[i] : i \in DOMAIN type_rule(op).pushes}

\* the type signatures of the declared functions
DeclaredSigs(m) ==
    IF IsSome(m.function_section) /\ IsSome(m.type_section)
    THEN {Unwrap(m.type_section)[Unwrap(m.function_section)[i] + 1] :
            i \in {j \in DOMAIN Unwrap(m.function_section) :
                      Unwrap(m.function_section)[j] + 1 \in DOMAIN Unwrap(m.type_section)}}
    ELSE {}

\* the value types of a signature: its parameters and its result
SigTypes(sig) ==
    {sig.params[i] : i \in DOMAIN sig.params} \cup {sig.results[i] : i \in DOMAIN sig.results}

DeniedTypes(allow) == IF allow THEN {"F64"} ELSE {"F32", "F64"}

\* the instructions the scan denies under allow
DeniedOps(allow) ==
    IF allow THEN TableSet(DENIED_64) \cup TableSet(DENIED_32) ELSE TableSet(DENIED_64)

DeniedPositions(m, allow) == {p \in Positions(m) : OpAt(m, p) \in DeniedOps(allow)}

FirstDenied(m, allow) ==
    CHOOSE p \in DeniedPositions(m, allow) :
        \A q \in DeniedPositions(m, allow) : q = p \/ Before(p, q)

F64Message == "f64 Floating point operation denied"

F32Message == "f32 Floating point operation denied"

TypesError == Err([msg |-> "Use of floating point types denied"])

\* the mathematical sum of the initial page counts
RECURSIVE WideSum(_)
WideSum(xs) == IF xs = <<>> THEN Zero ELSE WideAdd(Head(xs), WideSum(Tail(xs)))

TrueSum(m) ==
    IF IsSome(m.memory_section)
    THEN WideSum([i \in DOMAIN Unwrap(m.memory_section) |-> Unwrap(m.memory_section)[i].initial])
    ELSE Zero

FailingIndices(m) == {i \in 0..n_bodies(m) - 1 : IsErr(validate_function(m, i))}

LowestFailing(m) == CHOOSE i \in FailingIndices(m) : \A j \in FailingIndices(m) : i <= j

(***************************************************************************)
(* The claims                                                              *)
(***************************************************************************)
\* C1: whenever compile_module returns Ok for a module with N function
\* bodies, the code_map returned has exactly N entries and its entry i is
\* the encoding the function validator produced for body i: no reordering,
\* omission or duplication.
C1_CodeMapMirrorsBodies ==
    \A r \in compiled :
        IsOk(r) =>
            /\ r.value.module = module
            /\ Len(r.value.code_map) = n_bodies(module)
            /\ \A i \in 0..n_bodies(module) - 1 :
                  validate_function(module, i) = Ok(r.value.code_map[i + 1])

\* C1 witness: compile_module returned Ok for a module of several bodies
\* whose encodings differ
C1_Witness ==
    \E r \in compiled :
        /\ IsOk(r)
        /\ Len(r.value.code_map) >= 2
        /\ r.value.code_map[1] # r.value.code_map[2]

\* C2: if the validation of some function body fails, compile_module
\* returns Err with the error of the lowest-index failing function, no body
\* of a higher index is validated, and no CompiledModule is returned.
C2_FirstFailureAborts ==
    \A r \in compiled :
        FailingIndices(module) # {} =>
            /\ IsErr(r)
            /\ r = validate_function(module, LowestFailing(module))
            /\ validated = [i \in 1..LowestFailing(module) + 1 |-> i - 1]
            /\ "value" \notin DOMAIN r

\* C2 witness: compile_module failed on a body that is not the last one,
\* with a failing body behind it
C2_Witness ==
    \E r \in compiled :
        /\ IsErr(r)
        /\ Len(validated) < n_bodies(module)
        /\ FailingIndices(module) # {}
        /\ \E j \in FailingIndices(module) : j > LowestFailing(module)

\* C3: for both values of allow_f32, deny_floating_point returns Err for
\* every module in which some function body contains an instruction that
\* loads, stores, makes, compares, computes or converts to or from f64.
C3_F64InstructionsAlwaysDenied ==
    \A r \in fp_result :
        (\E op \in OpsOf(module) : "F64" \in TypesOf(op)) => IsErr(r)

\* C4: when allow_f32 is false, deny_floating_point returns Err for every
\* module in which some function body contains an instruction that consumes
\* or produces a value of type f32 or f64, whatever the signatures are.
C4_NoFloatInstructionWhenF32Denied ==
    \A r \in fp_result :
        (~allow_f32 /\ \E op \in OpsOf(module) : TypesOf(op) \cap {"F32", "F64"} # {})
            => IsErr(r)

C6_SignatureGate ==
    \A r \in fp_result :
        DeniedPositions(module, allow_f32) = {} =>
            IF \E sig \in DeclaredSigs(module) : SigTypes(sig) \cap DeniedTypes(allow_f32) # {}
            THEN r = TypesError
            ELSE IsOk(r)

\* C6 witness: the gate answered the signature error for a module of two
\* functions of which only the second has a denied type, and that only as
\* its result
C6_Witness ==
    /\ fp_result = Some(TypesError)
    /\ IsSome(module.function_section) /\ IsSome(module.type_section)
    /\ Len(Unwrap(module.function_section)) = 2
    /\ LET refs == Unwrap(module.function_section)
           types == Unwrap(module.type_section)
       IN  /\ refs[1] + 1 \in DOMAIN types /\ refs[2] + 1 \in DOMAIN types
           /\ SigTypes(types[refs[1] + 1]) \cap DeniedTypes(allow_f32) = {}
           /\ \A i \in DOMAIN types[refs[2] + 1].params :
                 types[refs[2] + 1].params[i] \notin DeniedTypes(allow_f32)
           /\ SigTypes(types[refs[2] + 1]) \cap DeniedTypes(allow_f32) # {}

\* C7: deny_floating_point reports the error of the first violation in
\* scan order: the earliest denied instruction by body index and then
\* position, ahead of any denied signature type.
C7_FirstViolationReported ==
    \A r \in fp_result :
        DeniedPositions(module, allow_f32) # {} =>
            LET op == OpAt(module, FirstDenied(module, allow_f32))
            IN  r = Err([msg |-> IF op \in TableSet(DENIED_64) THEN F64Message ELSE F32Message,
                         op |-> op])

\* C7 witness: the gate answered for a module with denied instructions of
\* different kinds in two bodies and a denied signature type
C7_Witness ==
    /\ IsSome(fp_result)
    /\ \E p, q \in DeniedPositions(module, allow_f32) :
          p[1] < q[1] /\ OpAt(module, p) # OpAt(module, q)
    /\ \E sig \in DeclaredSigs(module) : SigTypes(sig) \cap DeniedTypes(allow_f32) # {}

\* C8: validate_memory_size returns Err if and only if the sum of the
\* initial page counts of all declared memories is strictly greater than
\* max_pages, and Ok otherwise.
C8_MemoryGateExact ==
    \A r \in mem_result :
        IF WideGt(TrueSum(module), max_pages) THEN IsErr(r) ELSE IsOk(r)

C10_NoAcceptanceByWrapAround ==
    \A r \in mem_result : IsOk(r) => ~WideGt(TrueSum(module), max_pages)

====
